---- MODULE Spec2Model ----
(***************************************************************************)
(* Model of the import-data generator: src/main.go (the delegated variant: *)
(* extractStructDefs, AIAgent.GenerateData, SaveToExcel, ProcessModel) and *)
(* src/unnamed/part_000 (the deterministic variant: generateCustomer,      *)
(* processCustomer).                                                       *)
(*                                                                         *)
(* Go strings are sequences of one-character strings, so that the string   *)
(* functions the code calls (Trim, Split, TrimPrefix, Contains, ...) are    *)
(* computed, not assumed.  In a backend reply the text of one JSON object  *)
(* literal is a single element of the sequence (see ObjectLiterals).       *)
(***************************************************************************)
EXTENDS Integers, Sequences, FiniteSets, TLC

VARIABLES prog, src, structInfos, pc, todo, structName, attempt, inflight,
          elapsed, err, resp, content, rows, result, events, generated,
          exported, reported, ret

vars == <<prog, src, structInfos, pc, todo, structName, attempt, inflight,
          elapsed, err, resp, content, rows, result, events, generated,
          exported, reported, ret>>

----------------------------------------------------------------------------
(* The package strings, on sequences of characters.                        *)

Min(S) == CHOOSE x \in S : \A y \in S : x <= y

Max(S) == CHOOSE x \in S : \A y \in S : x >= y

\* strings.HasPrefix
HasPrefix(s, p) == Len(p) <= Len(s) /\ SubSeq(s, 1, Len(p)) = p

\* strings.HasSuffix
HasSuffix(s, p) == Len(p) <= Len(s) /\ SubSeq(s, Len(s) - Len(p) + 1, Len(s)) = p

\* strings.TrimPrefix
TrimPrefix(s, p) == IF HasPrefix(s, p) THEN SubSeq(s, Len(p) + 1, Len(s)) ELSE s

\* strings.TrimSuffix
TrimSuffix(s, p) == IF HasSuffix(s, p) THEN SubSeq(s, 1, Len(s) - Len(p)) ELSE s

\* strings.Index, 1-based; 0 when sub does not occur in s
Index(s, sub) ==
    LET at == {i \in 1..(Len(s) - Len(sub) + 1) : SubSeq(s, i, i + Len(sub) - 1) = sub}
    IN IF at = {} THEN 0 ELSE Min(at)

\* strings.Contains
Contains(s, sub) == Index(s, sub) # 0

\* strings.Trim(s, cutset): leading and trailing characters of cutset removed
Trim(s, cutset) ==
    LET keep == {i \in 1..Len(s) : s[i] \notin cutset}
    IN IF keep = {} THEN <<>> ELSE SubSeq(s, Min(keep), Max(keep))

\* the white space strings.TrimSpace removes
WhiteSpace == {" ", "\n", "\t", "\r"}

\* strings.TrimSpace
TrimSpace(s) == Trim(s, WhiteSpace)

\* strings.Split(s, sep) for a non-empty sep: the pieces between occurrences
RECURSIVE Split(_, _)
Split(s, sep) ==
    LET i == Index(s, sep)
    IN IF i = 0 THEN <<s>>
       ELSE <<SubSeq(s, 1, i - 1)>> \o Split(SubSeq(s, i + Len(sep), Len(s)), sep)

\* a map with key k set to v (Go: m[k] = v)
Put(m, k, v) == [x \in (DOMAIN m) \cup {k} |-> IF x = k THEN v ELSE m[x]]

\* the empty map
EmptyMap == [x \in {} |-> x]

----------------------------------------------------------------------------
(* A source unit as go/parser hands it to extractStructDefs: whether it    *)
(* parses, and its type declarations.  A declaration is                    *)
(*   [Name, IsStruct, Fields], a field [Names, Type, Tag], a type          *)
(*   expression [kind, X, Name] with kind "Ident" (Name), "Selector"       *)
(*   (X.Name) or "Other" (pointer, slice, map, ...).  Tag is the literal   *)
(*   as written, back quotes included; NoTag is field.Tag == nil.          *)

NoTag == <<>>

Ident(n) == [kind |-> "Ident", X |-> <<>>, Name |-> n]

Selector(x, n) == [kind |-> "Selector", X |-> x, Name |-> n]

Other(n) == [kind |-> "Other", X |-> <<>>, Name |-> n]

Field(names, type, tag) == [Names |-> names, Type |-> type, Tag |-> tag]

Struct(name, fields) == [Name |-> name, IsStruct |-> TRUE, Fields |-> fields]

Alias(name) == [Name |-> name, IsStruct |-> FALSE, Fields |-> <<>>]

Unit(decls) == [parses |-> TRUE, decls |-> decls]

BadUnit == [parses |-> FALSE, decls |-> <<>>]

\* The back quote character.  The character cannot be written in a string of
\* this language, so the one-element string "BQ" stands for it; no other
\* character of the model is written with two letters.
BQ == "BQ"

\* pieces of struct tags
BackQuote == <<BQ>>

JSONKey == <<"j", "s", "o", "n", ":", "\"">>

DoubleQuote == <<"\"">>

Comma == <<",">>

omitempty == <<"o", "m", "i", "t", "e", "m", "p", "t", "y">>

\* the tag literal json:"<body>" between back quotes
JSONTagLit(body) == BackQuote \o JSONKey \o body \o DoubleQuote \o BackQuote

\* the tag literal db:"q" json:"<body>" between back quotes
DBJSONTagLit(body) ==
    BackQuote \o <<"d", "b", ":", "\"", "q", "\"", " ">> \o JSONKey \o body
        \o DoubleQuote \o BackQuote

\* the tag literal xml:"<body>" between back quotes
XMLTagLit(body) == BackQuote \o <<"x", "m", "l", ":", "\"">> \o body \o DoubleQuote \o BackQuote

----------------------------------------------------------------------------
(* extractStructDefs                                                       *)

FieldInfo(type, jsonTag) == [Type |-> type, JSONTag |-> jsonTag]

StructInfo(fields, isNested) == [Fields |-> fields, IsNested |-> isNested]

\* the switch on field.Type: the type name kept for a field
FieldTypeName(t) ==
    IF t.kind = "Ident" THEN t.Name ELSE t.X \o <<".">> \o t.Name

\* the wire name taken from a field's tag; the field's name without one
ExtractJSONTag(name, tagLit) ==
    IF tagLit = NoTag THEN name
    ELSE LET tag == Trim(tagLit, {BQ})
             parts == Split(tag, JSONKey)
         IN IF Len(parts) > 1
            THEN Split(Split(parts[2], DoubleQuote)[1], Comma)[1]
            ELSE name

\* the inner loops over structType.Fields.List and field.Names
RECURSIVE CollectNames(_, _, _)
CollectNames(fields, f, i) ==
    IF i > Len(f.Names) THEN fields
    ELSE CollectNames(
             IF f.Type.kind \in {"Ident", "Selector"}
             THEN Put(fields, f.Names[i],
                      FieldInfo(FieldTypeName(f.Type), ExtractJSONTag(f.Names[i], f.Tag)))
             ELSE fields,
             f, i + 1)

RECURSIVE CollectFields(_, _, _)
CollectFields(fields, list, i) ==
    IF i > Len(list) THEN fields
    ELSE CollectFields(CollectNames(fields, list[i], 1), list, i + 1)

\* first pass: every struct declaration, in source order (a later
\* declaration of a name replaces an earlier one)
RECURSIVE CollectStructs(_, _, _)
CollectStructs(infos, decls, i) ==
    IF i > Len(decls) THEN infos
    ELSE CollectStructs(
             IF decls[i].IsStruct
             THEN Put(infos, decls[i].Name,
                      StructInfo(CollectFields(EmptyMap, decls[i].Fields, 1), FALSE))
             ELSE infos,
             decls, i + 1)

\* second pass, one record of the range loop: every record named by the
\* type of a field of infos[name] gets IsNested = true
MarkFrom(infos, name) ==
    LET hit == {infos[name].Fields[f].Type : f \in DOMAIN infos[name].Fields}
    IN [n \in DOMAIN infos |->
            IF n \in hit THEN StructInfo(infos[n].Fields, TRUE) ELSE infos[n]]

\* second pass: the range loop over structInfos, visiting its keys in the given order
RECURSIVE MarkNested(_, _, _)
MarkNested(infos, order, i) ==
    IF i > Len(order) THEN infos
    ELSE MarkNested(MarkFrom(infos, order[i]), order, i + 1)

\* the orders in which a range loop may visit the keys of a map
RECURSIVE Orders(_)
Orders(S) ==
    IF S = {} THEN {<<>>}
    ELSE UNION {{<<x>> \o o : o \in Orders(S \ {x})} : x \in S}

\* extractStructDefs: the map returned, or NoStructs for the error returns
\* (the unit does not parse, or declares no struct)
NoStructs == EmptyMap

extractStructDefs(unit, order) ==
    IF ~unit.parses THEN NoStructs
    ELSE MarkNested(CollectStructs(EmptyMap, unit.decls, 1), order, 1)

\* the keys of the map the first pass builds, which the second pass ranges over
StructNames(unit) ==
    IF ~unit.parses THEN {}
    ELSE {unit.decls[i].Name : i \in {j \in 1..Len(unit.decls) : unit.decls[j].IsStruct}}

----------------------------------------------------------------------------
(* Constants of the code                                                   *)

apiTimeoutSeconds == 60

apiRetries == 2

retryDelaySeconds == 1

minRows == 25

maxRows == 30

customerRows == 30

----------------------------------------------------------------------------
(* JSON values as encoding/json decodes them into interface{}: a number,   *)
(* a string, null, an array, or an object (a map from keys to values).     *)

Num == [t |-> "number", m |-> EmptyMap]

Str == [t |-> "string", m |-> EmptyMap]

Null == [t |-> "null", m |-> EmptyMap]

Arr == [t |-> "array", m |-> EmptyMap]

Obj(m) == [t |-> "object", m |-> m]

\* the type assertion v.(map[string]interface{})
IsMap(v) == v.t = "object"

\* keys used on the wire by the schemas of the model
ka == <<"a">>

kp == <<"p">>

kx == <<"x">>

ky == <<"y">>

kz == <<"z">>

\* a map given as a set of <<key, value>> pairs with distinct keys
MapOf(pairs) ==
    [k \in {pr[1] : pr \in pairs} |-> (CHOOSE pr \in pairs : pr[1] = k)[2]]

\* The object literals a backend reply of the model may contain, each with the
\* map json.Unmarshal decodes it into.  The literal is written without the
\* quotes of JSON; 1 stands for any scalar.
ObjectLiterals ==
       ("{}" :> EmptyMap)
    @@ ("{p:1}" :> MapOf({<<kp, Num>>}))
    @@ ("{p:null}" :> MapOf({<<kp, Null>>}))
    @@ ("{p:[]}" :> MapOf({<<kp, Arr>>}))
    @@ ("{p:{}}" :> MapOf({<<kp, Obj(EmptyMap)>>}))
    @@ ("{p:{x:1}}" :> MapOf({<<kp, Obj(MapOf({<<kx, Num>>}))>>}))
    @@ ("{p:{y:1}}" :> MapOf({<<kp, Obj(MapOf({<<ky, Str>>}))>>}))
    @@ ("{p:{x:1,y:1}}" :> MapOf({<<kp, Obj(MapOf({<<kx, Num>>, <<ky, Str>>}))>>}))
    @@ ("{p:{x:{},y:1}}" :> MapOf({<<kp, Obj(MapOf({<<kx, Obj(EmptyMap)>>, <<ky, Str>>}))>>}))
    @@ ("{p:{x:1,y:1,z:1}}" :> MapOf({<<kp, Obj(MapOf({<<kx, Num>>, <<ky, Str>>, <<kz, Num>>}))>>}))
    @@ ("{a:1}" :> MapOf({<<ka, Str>>}))
    @@ ("{a:1,p:1}" :> MapOf({<<ka, Str>>, <<kp, Num>>}))
    @@ ("{a:1,p:null}" :> MapOf({<<ka, Str>>, <<kp, Null>>}))
    @@ ("{a:1,p:[]}" :> MapOf({<<ka, Str>>, <<kp, Arr>>}))
    @@ ("{a:1,p:{}}" :> MapOf({<<ka, Str>>, <<kp, Obj(EmptyMap)>>}))
    @@ ("{a:1,p:{x:1}}" :> MapOf({<<ka, Str>>, <<kp, Obj(MapOf({<<kx, Num>>}))>>}))
    @@ ("{a:1,p:{y:1}}" :> MapOf({<<ka, Str>>, <<kp, Obj(MapOf({<<ky, Str>>}))>>}))
    @@ ("{a:1,p:{x:1,y:1}}" :> MapOf({<<ka, Str>>, <<kp, Obj(MapOf({<<kx, Num>>, <<ky, Str>>}))>>}))
    @@ ("{a:1,p:{x:{},y:1}}" :> MapOf({<<ka, Str>>, <<kp, Obj(MapOf({<<kx, Obj(EmptyMap)>>, <<ky, Str>>}))>>}))
    @@ ("{a:1,p:{x:1,y:1,z:1}}" :> MapOf({<<ka, Str>>, <<kp, Obj(MapOf({<<kx, Num>>, <<ky, Str>>, <<kz, Num>>}))>>}))
    @@ ("{a:1,p:{x:1,y:1},z:1}" :> MapOf({<<ka, Str>>, <<kp, Obj(MapOf({<<kx, Num>>, <<ky, Str>>}))>>, <<kz, Num>>}))

\* the literal null
NullLiteral == "null"

----------------------------------------------------------------------------
(* Errors.  NoErr is nil.  kind names the return statement that made the   *)
(* error; cause is the kind of the error it wraps; attempt the backend     *)
(* attempt that failed; row, field and nested what the message reports.    *)

Error(kind, cause, att, row, field, nested) ==
    [kind |-> kind, cause |-> cause, attempt |-> att, row |-> row,
     field |-> field, nested |-> nested]

NoErr == Error("nil", "nil", 0, 0, <<>>, <<>>)

\* what genModel.GenerateContent returns on a failed attempt
ApiErr(att) == Error("api", "nil", att, 0, <<>>, <<>>)

\* context.DeadlineExceeded from the call of an attempt
DeadlineErr(att) == Error("deadline", "nil", att, 0, <<>>, <<>>)

\* "failed to generate content for %s after %d attempts: %v"
BackendError(e) == Error("backend", e.kind, e.attempt, 0, <<>>, <<>>)

\* "no valid response from model for %s"
NoResponseError == Error("noresponse", "nil", 0, 0, <<>>, <<>>)

\* "unexpected response format for %s"
FormatError == Error("format", "nil", 0, 0, <<>>, <<>>)

\* "failed to parse generated JSON for %s: %v (cleaned content: %s)"
ParseError == Error("parse", "unmarshal", 0, 0, <<>>, <<>>)

\* "expected around 30 rows for %s, got %d"
RowCountError(n) == Error("rowcount", "nil", 0, n, <<>>, <<>>)

\* "row %d for %s missing required field: %s"
MissingFieldError(i, tag) == Error("missing", "nil", 0, i, tag, <<>>)

\* "row %d for %s has invalid %s field: expected nested object, got %v"
NotObjectError(i, tag) == Error("notobject", "nil", 0, i, tag, <<>>)

\* "row %d for %s has invalid %s field: missing nested field %s"
MissingNestedError(i, tag, ntag) == Error("missingnested", "nil", 0, i, tag, ntag)

----------------------------------------------------------------------------
(* AIAgent.GenerateData: the reply, its sanitization and its parse         *)

\* the reply of a successful backend call, as far as the code looks at it:
\* no candidate, a candidate without parts, a first part that is no
\* genai.Text, or a first part that is text
TextReply(text) == [kind |-> "text", text |-> text]

NoCandidates == [kind |-> "nocandidates", text |-> <<>>]

NoParts == [kind |-> "noparts", text |-> <<>>]

NonTextPart == [kind |-> "nontext", text |-> <<>>]

NoResp == [kind |-> "none", text |-> <<>>]

FenceJSON == <<BQ, BQ, BQ, "j", "s", "o", "n", "\n">>

Fence == <<BQ, BQ, BQ, "\n">>

FenceEnd == <<"\n", BQ, BQ, BQ>>

\* the wrap of a text that does not look like an array
WrapArray(c) ==
    IF ~HasPrefix(c, <<"[">>) \/ ~HasSuffix(c, <<"]">>)
    THEN <<"[">> \o c \o <<"]">>
    ELSE c

\* the cleaning without the removal of the closing fence
SanitizeKeepsFenceEnd(text) ==
    WrapArray(TrimSpace(TrimPrefix(TrimPrefix(TrimSpace(text), FenceJSON), Fence)))

\* the cleaning of the reply text
Sanitize(text) ==
    WrapArray(TrimSpace(TrimSuffix(TrimPrefix(TrimPrefix(TrimSpace(text), FenceJSON),
                                              Fence), FenceEnd)))

\* json.Unmarshal of an object literal or null into a GeneratedRow
DecodeRow(lit) == IF lit = NullLiteral THEN EmptyMap ELSE ObjectLiterals[lit]

\* json.Unmarshal([]byte(content), &rows): ok and the rows, or an error.
\* White space between tokens is insignificant; the text must be null or an
\* array whose elements, separated by commas, are objects or null.
Unmarshal(c) ==
    LET IsToken(e) == e \notin WhiteSpace
        t == SelectSeq(c, IsToken)
        n == Len(t)
        k == (n - 1) \div 2
    IN IF t = <<NullLiteral>> THEN [ok |-> TRUE, rows |-> <<>>]
       ELSE IF n = 2 /\ t = <<"[", "]">> THEN [ok |-> TRUE, rows |-> <<>>]
       ELSE IF /\ n >= 3
               /\ n % 2 = 1
               /\ t[1] = "["
               /\ t[n] = "]"
               /\ \A i \in 1..k : t[2 * i] \in (DOMAIN ObjectLiterals) \cup {NullLiteral}
               /\ \A i \in 1..(k - 1) : t[2 * i + 1] = ","
            THEN [ok |-> TRUE, rows |-> [i \in 1..k |-> DecodeRow(t[2 * i])]]
            ELSE [ok |-> FALSE, rows |-> <<>>]

----------------------------------------------------------------------------
(* AIAgent.GenerateData: the checks after the parse                        *)

\* the count check with its lower limit off by one
RowCountOKAbove(n) == ~(n <= minRows \/ n > maxRows)

\* the count check
RowCountOK(n) == ~(n < minRows \/ n > maxRows)

\* jsonTag := fieldInfo.JSONTag; if jsonTag == "" { jsonTag = fieldName }
WireName(fieldName, fieldInfo) ==
    IF fieldInfo.JSONTag = <<>> THEN fieldName ELSE fieldInfo.JSONTag

\* the presence check of one field of a nested object: is it in error
NestedFieldMissing(nested, nestedField, nestedFieldInfo) ==
    /\ WireName(nestedField, nestedFieldInfo) \notin DOMAIN nested
    /\ ~Contains(nestedFieldInfo.JSONTag, omitempty)

\* the check of one field without the presence check of its key
FieldErrorsNoPresence(infos, i, row, fieldName, fieldInfo) ==
    LET jsonTag == WireName(fieldName, fieldInfo)
    IN IF jsonTag \notin DOMAIN row THEN {}
       ELSE IF fieldInfo.Type \notin DOMAIN infos THEN {}
       ELSE IF ~IsMap(row[jsonTag]) THEN {NotObjectError(i, jsonTag)}
       ELSE LET nfs == infos[fieldInfo.Type].Fields
            IN {MissingNestedError(i, jsonTag, WireName(nf, nfs[nf])) :
                    nf \in {f \in DOMAIN nfs : NestedFieldMissing(row[jsonTag].m, f, nfs[f])}}

\* the check of one field without the type assertion on a nested value
FieldErrorsNoAssertion(infos, i, row, fieldName, fieldInfo) ==
    LET jsonTag == WireName(fieldName, fieldInfo)
    IN IF jsonTag \notin DOMAIN row THEN {MissingFieldError(i, jsonTag)}
       ELSE IF fieldInfo.Type \notin DOMAIN infos THEN {}
       ELSE IF ~IsMap(row[jsonTag]) THEN {}
       ELSE LET nfs == infos[fieldInfo.Type].Fields
            IN {MissingNestedError(i, jsonTag, WireName(nf, nfs[nf])) :
                    nf \in {f \in DOMAIN nfs : NestedFieldMissing(row[jsonTag].m, f, nfs[f])}}

\* the check of one field with the type assertion made one level deeper too
FieldErrorsTwoLevels(infos, i, row, fieldName, fieldInfo) ==
    LET jsonTag == WireName(fieldName, fieldInfo)
    IN IF jsonTag \notin DOMAIN row THEN {MissingFieldError(i, jsonTag)}
       ELSE IF fieldInfo.Type \notin DOMAIN infos THEN {}
       ELSE IF ~IsMap(row[jsonTag]) THEN {NotObjectError(i, jsonTag)}
       ELSE LET nfs == infos[fieldInfo.Type].Fields
            IN {MissingNestedError(i, jsonTag, WireName(nf, nfs[nf])) :
                    nf \in {f \in DOMAIN nfs : NestedFieldMissing(row[jsonTag].m, f, nfs[f])}}
               \cup {NotObjectError(i, WireName(nf, nfs[nf])) :
                         nf \in {f \in DOMAIN nfs :
                                    /\ nfs[f].Type \in DOMAIN infos
                                    /\ WireName(f, nfs[f]) \in DOMAIN row[jsonTag].m
                                    /\ ~IsMap(row[jsonTag].m[WireName(f, nfs[f])])}}

\* the errors the check of one field of one row can return
FieldErrors(infos, i, row, fieldName, fieldInfo) ==
    LET jsonTag == WireName(fieldName, fieldInfo)
    IN IF jsonTag \notin DOMAIN row THEN {MissingFieldError(i, jsonTag)}
       ELSE IF fieldInfo.Type \notin DOMAIN infos THEN {}
       ELSE IF ~IsMap(row[jsonTag]) THEN {NotObjectError(i, jsonTag)}
       ELSE LET nfs == infos[fieldInfo.Type].Fields
            IN {MissingNestedError(i, jsonTag, WireName(nf, nfs[nf])) :
                    nf \in {f \in DOMAIN nfs : NestedFieldMissing(row[jsonTag].m, f, nfs[f])}}

\* the errors the check of one row can return: the fields are visited in
\* the order of a range over a map, so the first field in error may be any
RowErrors(infos, name, i, row) ==
    UNION {FieldErrors(infos, i, row, f, infos[name].Fields[f]) :
               f \in DOMAIN infos[name].Fields}

\* a validation loop that returns no error
ValidationErrorsNone(infos, name, rs) == {}

\* the validation loop: the errors it can return; none when every row passes
ValidationErrors(infos, name, rs) ==
    LET bad == {i \in 1..Len(rs) : RowErrors(infos, name, i, rs[i]) # {}}
    IN IF bad = {} THEN {} ELSE RowErrors(infos, name, Min(bad), rs[Min(bad)])

\* what GenerateData can return for a reply: <<rows, err>> with the cleaned
\* content and the parsed rows it went through
Returns(rs, e, c, parsed) == [rows |-> rs, err |-> e, content |-> c, parsed |-> parsed]

AfterParse(infos, name, c, parsed) ==
    IF ~RowCountOK(Len(parsed)) THEN {Returns(<<>>, RowCountError(Len(parsed)), c, parsed)}
    ELSE LET es == ValidationErrors(infos, name, parsed)
         IN IF es = {} THEN {Returns(parsed, NoErr, c, parsed)}
            ELSE {Returns(<<>>, e, c, parsed) : e \in es}

GenerateDataReturns(infos, name, reply) ==
    IF reply.kind \in {"nocandidates", "noparts"}
    THEN {Returns(<<>>, NoResponseError, <<>>, <<>>)}
    ELSE IF reply.kind = "nontext" THEN {Returns(<<>>, FormatError, <<>>, <<>>)}
    ELSE LET c == Sanitize(reply.text)
             u == Unmarshal(c)
         IN IF ~u.ok THEN {Returns(<<>>, ParseError, c, <<>>)}
            ELSE AfterParse(infos, name, c, u.rows)

----------------------------------------------------------------------------
(* SaveToExcel, the exporter: it fails without rows, and when the file     *)
(* cannot be written.                                                      *)

NoDataError == Error("nodata", "nil", 0, 0, <<>>, <<>>)

SaveAsError == Error("saveas", "nil", 0, 0, <<>>, <<>>)

SaveToExcelReturns(rs) == IF Len(rs) = 0 THEN {NoDataError} ELSE {NoErr, SaveAsError}

----------------------------------------------------------------------------
(* State.                                                                  *)
(*   prog        which program runs: "main" (src/main.go) or "customer"    *)
(*               (src/unnamed/part_000)                                    *)
(*   src         the source unit read                                      *)
(*   structInfos the map extractStructDefs returned                        *)
(*   pc          the position of the driver                                *)
(*   todo        the keys the range loop of ProcessModel has yet to visit  *)
(*   structName, attempt, err, resp, content, rows                         *)
(*               the parameter and locals of GenerateData                  *)
(*   inflight    backend calls invoked and not yet returned                *)
(*   elapsed     seconds since GenerateData made its context               *)
(*   result      what the generator returned: [rows, err]                  *)
(*   events      the backend calls, sleeps and parse of the current call   *)
(*   generated   the records the generator was invoked for, in order       *)
(*   exported    the calls of SaveToExcel: [name, rows, err]               *)
(*   reported    the failures logged: [name, stage, err]                   *)
(*   ret         what the driver returned: "running", "nil" or "error"     *)

NoResult == [rows |-> <<>>, err |-> NoErr]

\* the locals of GenerateData before a call
CallReset ==
    /\ attempt' = 0
    /\ inflight' = 0
    /\ elapsed' = 0
    /\ err' = NoErr
    /\ resp' = NoResp
    /\ content' = <<>>
    /\ rows' = <<>>
    /\ result' = NoResult
    /\ events' = <<>>

InitAt(p, unit) ==
    /\ prog = p
    /\ src = unit
    /\ structInfos = NoStructs
    /\ pc = "start"
    /\ todo = {}
    /\ structName = <<>>
    /\ attempt = 0
    /\ inflight = 0
    /\ elapsed = 0
    /\ err = NoErr
    /\ resp = NoResp
    /\ content = <<>>
    /\ rows = <<>>
    /\ result = NoResult
    /\ events = <<>>
    /\ generated = <<>>
    /\ exported = <<>>
    /\ reported = <<>>
    /\ ret = "running"

InitWith(p, units) == \E unit \in units : InitAt(p, unit)

Event(ev, att, d, e) == [ev |-> ev, attempt |-> att, d |-> d, err |-> e]

----------------------------------------------------------------------------
(* ProcessModel (src/main.go)                                              *)

\* structInfos, err := extractStructDefs(inputPath), and the error return
Extract ==
    /\ pc = "start"
    /\ prog = "main"
    /\ \E order \in Orders(StructNames(src)) :
           LET infos == extractStructDefs(src, order)
           IN /\ structInfos' = infos
              /\ IF DOMAIN infos = {}
                 THEN /\ ret' = "error"
                      /\ pc' = "done"
                      /\ todo' = {}
                 ELSE /\ ret' = ret
                      /\ pc' = "range"
                      /\ todo' = DOMAIN infos
    /\ UNCHANGED <<prog, src, structName, attempt, inflight, elapsed, err, resp,
                   content, rows, result, events, generated, exported, reported>>

\* a loop that skips no record
SkipsNone(info) == FALSE

\* if info.IsNested { ...; continue }
Skips(info) == info.IsNested

\* the range loop reaches a record marked nested: it is skipped
SkipNested ==
    /\ pc = "range"
    /\ \E name \in todo :
           /\ Skips(structInfos[name])
           /\ todo' = todo \ {name}
    /\ UNCHANGED <<prog, src, structInfos, pc, structName, attempt, inflight,
                   elapsed, err, resp, content, rows, result, events, generated,
                   exported, reported, ret>>

\* the range loop reaches a record not marked nested: GenerateData is
\* called; it makes its context and enters the retry loop with attempt 1
StartGenerate ==
    /\ pc = "range"
    /\ \E name \in todo :
           /\ ~Skips(structInfos[name])
           /\ todo' = todo \ {name}
           /\ structName' = name
           /\ generated' = Append(generated, name)
    /\ attempt' = 1
    /\ elapsed' = 0
    /\ pc' = "attempt"
    /\ UNCHANGED <<prog, src, structInfos, inflight, err, resp, content, rows,
                   result, events, exported, reported, ret>>

\* the range loop is over: return nil
ReturnNil ==
    /\ pc = "range"
    /\ todo = {}
    /\ ret' = "nil"
    /\ pc' = "done"
    /\ UNCHANGED <<prog, src, structInfos, todo, structName, attempt, inflight,
                   elapsed, err, resp, content, rows, result, events, generated,
                   exported, reported>>

----------------------------------------------------------------------------
(* AIAgent.GenerateData: the retry loop                                    *)

\* genModel.GenerateContent(ctx, ...) is called
Invoke ==
    /\ pc = "attempt"
    /\ inflight' = inflight + 1
    /\ events' = Append(events, Event("call", attempt, 0, NoErr))
    /\ pc' = "awaiting"
    /\ UNCHANGED <<prog, src, structInfos, todo, structName, attempt, elapsed, err,
                   resp, content, rows, result, generated, exported, reported, ret>>

\* An answer of the backend: after d seconds it answers with a reply or an
\* error.  The call is made under ctx, whose deadline is apiTimeoutSeconds
\* after GenerateData made it: an answer that does not come before the
\* deadline is lost and the call returns context.DeadlineExceeded.
Answer(d, ok, reply) == [d |-> d, ok |-> ok, reply |-> reply]

CallTimesOut(el, d) == d >= apiTimeoutSeconds - el

CallError(el, att, ans) ==
    IF CallTimesOut(el, ans.d) THEN DeadlineErr(att)
    ELSE IF ans.ok THEN NoErr ELSE ApiErr(att)

CallEnd(el, ans) ==
    IF CallTimesOut(el, ans.d)
    THEN (IF el > apiTimeoutSeconds THEN el ELSE apiTimeoutSeconds)
    ELSE el + ans.d

\* the loop body with the test of the last attempt off by one
AfterAttemptOffByOne(e, att) ==
    IF e = NoErr THEN "parse"
    ELSE IF att > apiRetries THEN "return"
    ELSE "sleep"

\* after a call of the loop: break, return the error, or sleep
AfterAttempt(e, att) ==
    IF e = NoErr THEN "parse"
    ELSE IF att = apiRetries THEN "return"
    ELSE "sleep"

\* the call returns, and the loop body goes on to its break, return or sleep
BackendReturn(answers) ==
    /\ pc = "awaiting"
    /\ \E ans \in answers :
           LET e == CallError(elapsed, attempt, ans)
               next == AfterAttempt(e, attempt)
           IN /\ err' = e
              /\ elapsed' = CallEnd(elapsed, ans)
              /\ resp' = IF e = NoErr THEN ans.reply ELSE NoResp
              /\ events' = Append(events,
                                  Event(IF e = NoErr THEN "ok" ELSE "fail", attempt, ans.d, e))
              /\ IF next = "return"
                 THEN /\ result' = [rows |-> <<>>, err |-> BackendError(e)]
                      /\ pc' = "generated"
                 ELSE /\ result' = result
                      /\ pc' = next
    /\ inflight' = inflight - 1
    /\ UNCHANGED <<prog, src, structInfos, todo, structName, attempt, content, rows,
                   generated, exported, reported, ret>>

\* time.Sleep(time.Second), attempt++ and the loop condition
Sleep ==
    /\ pc = "sleep"
    /\ elapsed' = elapsed + retryDelaySeconds
    /\ attempt' = attempt + 1
    /\ events' = Append(events, Event("sleep", attempt, retryDelaySeconds, NoErr))
    /\ pc' = IF attempt + 1 <= apiRetries THEN "attempt" ELSE "parse"
    /\ UNCHANGED <<prog, src, structInfos, todo, structName, inflight, err, resp,
                   content, rows, result, generated, exported, reported, ret>>

\* the rest of GenerateData: the reply is cleaned, parsed, counted and
\* validated, and GenerateData returns
Finish ==
    /\ pc = "parse"
    /\ \E r \in GenerateDataReturns(structInfos, structName, resp) :
           /\ content' = r.content
           /\ rows' = r.parsed
           /\ err' = IF r.err.kind = "parse" THEN r.err ELSE err
           /\ result' = [rows |-> r.rows, err |-> r.err]
    /\ events' = Append(events, Event("parse", attempt, 0, NoErr))
    /\ pc' = "generated"
    /\ UNCHANGED <<prog, src, structInfos, todo, structName, attempt, inflight,
                   elapsed, resp, generated, exported, reported, ret>>

----------------------------------------------------------------------------
(* ProcessModel: after GenerateData                                        *)

Report(stage, e) == [name |-> structName, stage |-> stage, err |-> e]

Export(rs, e) == [name |-> structName, rows |-> rs, err |-> e]

\* a driver that returns the error of GenerateData instead of continuing
GenerateFailedReturns ==
    /\ pc = "generated"
    /\ prog = "main"
    /\ result.err # NoErr
    /\ reported' = Append(reported, Report("generate", result.err))
    /\ pc' = "done"
    /\ ret' = "error"
    /\ CallReset
    /\ UNCHANGED <<prog, src, structInfos, todo, structName, generated, exported>>

\* GenerateData returned an error: it is logged and the loop continues
GenerateFailed ==
    /\ pc = "generated"
    /\ prog = "main"
    /\ result.err # NoErr
    /\ reported' = Append(reported, Report("generate", result.err))
    /\ pc' = "range"
    /\ CallReset
    /\ UNCHANGED <<prog, src, structInfos, todo, structName, generated, exported, ret>>

\* GenerateData returned rows: SaveToExcel is called; its error is logged;
\* the loop continues either way
Save ==
    /\ pc = "generated"
    /\ prog = "main"
    /\ result.err = NoErr
    /\ \E e \in SaveToExcelReturns(result.rows) :
           /\ exported' = Append(exported, Export(result.rows, e))
           /\ reported' = IF e # NoErr THEN Append(reported, Report("save", e))
                          ELSE reported
    /\ pc' = "range"
    /\ CallReset
    /\ UNCHANGED <<prog, src, structInfos, todo, structName, generated, ret>>

----------------------------------------------------------------------------
(* generateCustomer and processCustomer (src/unnamed/part_000)             *)

Customer == <<"C", "u", "s", "t", "o", "m", "e", "r">>

Phone == <<"P", "h", "o", "n", "e">>

p1 == <<"p", "1">>

p2 == <<"p", "2">>

\* the field names the switch of generateCustomer has a case for, with the
\* kind of value each case draws
CustomerRules ==
    (<<"N", "a", "m", "e">> :> Str) @@ (<<"T", "y", "p", "e">> :> Str)
        @@ (<<"C", "u", "s", "t", "o", "m", "e", "r", "I", "D">> :> Str) @@ (<<"T", "a", "x", "I", "d", "N", "u", "m", "b", "e", "r">> :> Num)

\* the fields of a record of the map; none when the map has no such record
\* (the zero StructInfo, whose Fields is nil)
FieldsOf(infos, name) == IF name \in DOMAIN infos THEN infos[name].Fields ELSE EmptyMap

\* the loop that fills nestedRow with a switch that has the case p1 alone
RECURSIVE PhoneRowOnlyP1(_, _, _, _)
PhoneRowOnlyP1(nestedRow, fields, norder, i) ==
    IF i > Len(norder) THEN nestedRow
    ELSE PhoneRowOnlyP1(
             IF norder[i] = p1
             THEN Put(nestedRow, WireName(norder[i], fields[norder[i]]), Str)
             ELSE nestedRow,
             fields, norder, i + 1)

\* the loop that fills nestedRow, visiting the fields of Phone in norder
RECURSIVE PhoneRow(_, _, _, _)
PhoneRow(nestedRow, fields, norder, i) ==
    IF i > Len(norder) THEN nestedRow
    ELSE PhoneRow(
             IF norder[i] \in {p1, p2}
             THEN Put(nestedRow, WireName(norder[i], fields[norder[i]]), Str)
             ELSE nestedRow,
             fields, norder, i + 1)

\* the loop that fills one row, visiting the fields of Customer in order
RECURSIVE CustomerRow(_, _, _, _, _)
CustomerRow(row, infos, order, norder, i) ==
    IF i > Len(order) THEN row
    ELSE LET fieldName == order[i]
             fieldInfo == infos[Customer].Fields[fieldName]
             jsonTag == WireName(fieldName, fieldInfo)
         IN CustomerRow(
                IF fieldInfo.Type = Phone
                THEN Put(row, jsonTag, Obj(PhoneRow(EmptyMap, FieldsOf(infos, Phone), norder, 1)))
                ELSE IF fieldName \in DOMAIN CustomerRules
                THEN Put(row, jsonTag, CustomerRules[fieldName])
                ELSE row,
                infos, order, norder, i + 1)

\* the errors the validation of one field of one row can return
CustomerFieldErrors(infos, i, row, fieldName, fieldInfo) ==
    LET jsonTag == WireName(fieldName, fieldInfo)
    IN IF jsonTag \notin DOMAIN row THEN {MissingFieldError(i, jsonTag)}
       ELSE IF fieldInfo.Type # Phone THEN {}
       ELSE IF ~IsMap(row[jsonTag]) THEN {NotObjectError(i, jsonTag)}
       ELSE LET nfs == FieldsOf(infos, Phone)
            IN {MissingNestedError(i, jsonTag, WireName(nf, nfs[nf])) :
                    nf \in {f \in DOMAIN nfs : WireName(f, nfs[f]) \notin DOMAIN row[jsonTag].m}}

\* the validation loop of generateCustomer: the errors it can return
CustomerValidationErrors(infos, rs) ==
    LET fs == infos[Customer].Fields
        errs(i) == UNION {CustomerFieldErrors(infos, i, rs[i], f, fs[f]) : f \in DOMAIN fs}
        bad == {i \in 1..Len(rs) : errs(i) # {}}
    IN IF bad = {} THEN {} ELSE errs(Min(bad))

\* generateCustomer: what it can return when its loops visit the fields of
\* Customer in order and those of Phone in norder.  The rows differ in the
\* values drawn, not in their keys nor in the kinds of their values.
generateCustomerReturns(infos, order, norder) ==
    LET row == CustomerRow(EmptyMap, infos, order, norder, 1)
        rs == [i \in 1..customerRows |-> row]
        es == CustomerValidationErrors(infos, rs)
    IN IF es = {} THEN {[rows |-> rs, err |-> NoErr]}
       ELSE {[rows |-> <<>>, err |-> e] : e \in es}

\* processCustomer: extractStructDefs, its error return, and the check that
\* the Customer struct exists
ExtractCustomer ==
    /\ pc = "start"
    /\ prog = "customer"
    /\ \E order \in Orders(StructNames(src)) :
           LET infos == extractStructDefs(src, order)
           IN /\ structInfos' = infos
              /\ IF DOMAIN infos = {} \/ Customer \notin DOMAIN infos
                 THEN /\ ret' = "error"
                      /\ pc' = "done"
                 ELSE /\ ret' = ret
                      /\ pc' = "customer"
    /\ UNCHANGED <<prog, src, todo, structName, attempt, inflight, elapsed, err, resp,
                   content, rows, result, events, generated, exported, reported>>

\* rows, err := generateCustomer(structInfos); an error is returned to main
GenerateCustomer ==
    /\ pc = "customer"
    /\ \E order \in Orders(DOMAIN structInfos[Customer].Fields),
          norder \in Orders(DOMAIN FieldsOf(structInfos, Phone)) :
          \E r \in generateCustomerReturns(structInfos, order, norder) :
              /\ result' = r
              /\ rows' = r.rows
              /\ IF r.err # NoErr
                 THEN /\ ret' = "error"
                      /\ pc' = "done"
                 ELSE /\ ret' = ret
                      /\ pc' = "generated"
    /\ structName' = Customer
    /\ generated' = Append(generated, Customer)
    /\ UNCHANGED <<prog, src, structInfos, todo, attempt, inflight, elapsed, err, resp,
                   content, events, exported, reported>>

\* err = SaveToExcel("Customer", rows, outputPath); an error is returned to
\* main, nil otherwise
SaveCustomer ==
    /\ pc = "generated"
    /\ prog = "customer"
    /\ \E e \in SaveToExcelReturns(result.rows) :
           /\ exported' = Append(exported, Export(result.rows, e))
           /\ ret' = IF e # NoErr THEN "error" ELSE "nil"
    /\ pc' = "done"
    /\ UNCHANGED <<prog, src, structInfos, todo, structName, attempt, inflight,
                   elapsed, err, resp, content, rows, result, events, generated,
                   reported>>

----------------------------------------------------------------------------
(* Source units of the model.                                              *)

StringT == <<"s", "t", "r", "i", "n", "g">>

T == <<"T">>

U == <<"U">>

W == <<"W">>

P == <<"P">>

Q == <<"Q">>

\* field names
ID == <<"I", "D">>

Tel == <<"T", "e", "l">>

CC == <<"C", "C">>

No == <<"N", "o">>

\* type T struct { ID string `json:"a"`; Tel P `json:"p"` }
DeclT == Struct(T, <<Field(<<ID>>, Ident(StringT), JSONTagLit(ka)),
                     Field(<<Tel>>, Ident(P), JSONTagLit(kp))>>)

\* type P struct { CC string `json:"x"`; No string `json:"y"` }
DeclP == Struct(P, <<Field(<<CC>>, Ident(StringT), JSONTagLit(kx)),
                     Field(<<No>>, Ident(StringT), JSONTagLit(ky))>>)

\* type U struct { ID string `json:"a"` }
DeclU == Struct(U, <<Field(<<ID>>, Ident(StringT), JSONTagLit(ka))>>)

\* type W struct { a string; t time.Time `json:"p"` }
DeclW == Struct(W, <<Field(<<ka>>, Ident(StringT), NoTag),
                     Field(<<<<"t">>>>, Selector(<<"t", "i", "m", "e">>, <<"T", "i", "m", "e">>),
                           JSONTagLit(kp))>>)

\* type T struct { ID string `json:"a"`; Tel *P `json:"p"` }: the pointer
\* field is dropped
DeclTPointer == Struct(T, <<Field(<<ID>>, Ident(StringT), JSONTagLit(ka)),
                            Field(<<Tel>>, Other(P), JSONTagLit(kp))>>)

\* type T struct { ID string `json:"a"`; Tel T `json:"p"` }: a field of its
\* own type
DeclTSelf == Struct(T, <<Field(<<ID>>, Ident(StringT), JSONTagLit(ka)),
                         Field(<<Tel>>, Ident(T), JSONTagLit(kp))>>)

\* the units the pipeline is run on
MainSources ==
    {Unit(<<DeclT, DeclP>>), Unit(<<DeclP, DeclT>>), Unit(<<DeclT, DeclP, DeclU>>),
     Unit(<<DeclU, DeclW, DeclT, DeclP>>), Unit(<<DeclTSelf, DeclU>>),
     Unit(<<DeclTPointer, DeclP>>), Unit(<<Alias(T)>>), BadUnit}

\* the units of the deterministic variant
CustomerID == <<"C", "u", "s", "t", "o", "m", "e", "r", "I", "D">>

Email == <<"E", "m", "a", "i", "l">>

kid == <<"i", "d">>

ktype == <<"t", "y", "p", "e">>

kphone == <<"p", "h", "o", "n", "e">>

kcc == <<"c", "c">>

knum == <<"n", "u", "m">>

\* type Customer struct { CustomerID string `json:"id"`; Type string
\* `json:"type"`; Phone Phone `json:"phone"` }
DeclCustomer ==
    Struct(Customer, <<Field(<<CustomerID>>, Ident(StringT), JSONTagLit(kid)),
                       Field(<<<<"T", "y", "p", "e">>>>, Ident(StringT), JSONTagLit(ktype)),
                       Field(<<Phone>>, Ident(Phone), JSONTagLit(kphone))>>)

\* the same with a field the switch has no case for: Email string
DeclCustomerEmail ==
    Struct(Customer, <<Field(<<CustomerID>>, Ident(StringT), JSONTagLit(kid)),
                       Field(<<Email>>, Ident(StringT), NoTag),
                       Field(<<Phone>>, Ident(Phone), JSONTagLit(kphone))>>)

\* type Phone struct { p1 string `json:"cc"`; p2 string `json:"num"` }
DeclPhone == Struct(Phone, <<Field(<<p1>>, Ident(StringT), JSONTagLit(kcc)),
                             Field(<<p2>>, Ident(StringT), JSONTagLit(knum))>>)

\* type Phone struct { CC string `json:"cc"`; No string `json:"num"` }
DeclPhoneNamed == Struct(Phone, <<Field(<<CC>>, Ident(StringT), JSONTagLit(kcc)),
                                  Field(<<No>>, Ident(StringT), JSONTagLit(knum))>>)

CustomerSources ==
    {Unit(<<DeclCustomer, DeclPhone>>), Unit(<<DeclPhone, DeclCustomer>>),
     Unit(<<DeclCustomer, DeclPhoneNamed>>), Unit(<<DeclCustomerEmail, DeclPhone>>),
     Unit(<<DeclCustomer, DeclPhone, DeclU>>), Unit(<<DeclCustomer>>),
     Unit(<<DeclPhone, DeclU>>), Unit(<<Alias(Customer)>>), BadUnit}

----------------------------------------------------------------------------
(* Backend replies of the model.                                           *)

\* the text of an array of n object literals: base, but odd at place pos
RowsText(n, base, pos, odd) ==
    IF n = 0 THEN <<"[", "]">>
    ELSE [i \in 1..(2 * n + 1) |->
              IF i = 1 THEN "["
              ELSE IF i = 2 * n + 1 THEN "]"
              ELSE IF i % 2 = 1 THEN ","
              ELSE IF i = 2 * pos THEN odd ELSE base]

GoodRow == "{a:1,p:{x:1,y:1}}"

Prose == <<"S", "o", "r", "r", "y", ".">>

PipelineReplies ==
    {TextReply(RowsText(minRows, GoodRow, 0, GoodRow)),
     TextReply(FenceJSON \o RowsText(maxRows, GoodRow, 0, GoodRow) \o FenceEnd),
     TextReply(RowsText(minRows - 1, GoodRow, 0, GoodRow)),
     TextReply(RowsText(minRows, GoodRow, minRows, "{a:1}")),
     TextReply(RowsText(minRows, GoodRow, 2, "{a:1,p:[]}")),
     TextReply(Prose), NoCandidates, NoParts, NonTextPart}

\* the answer times of the model: at once, after half the timeout, and not
\* before the timeout
AnswerTimes == {0, apiTimeoutSeconds \div 2, apiTimeoutSeconds}

Answers(times, replies) ==
    {Answer(d, TRUE, r) : d \in times, r \in replies}
        \cup {Answer(d, FALSE, NoResp) : d \in times}

PipelineAnswers == Answers(AnswerTimes, PipelineReplies)

----------------------------------------------------------------------------
(* The pipeline: either program, on the units above.                       *)

Init == InitWith("main", MainSources) \/ InitWith("customer", CustomerSources)

Next ==
    \/ Extract
    \/ SkipNested
    \/ StartGenerate
    \/ ReturnNil
    \/ Invoke
    \/ BackendReturn(PipelineAnswers)
    \/ Sleep
    \/ Finish
    \/ GenerateFailed
    \/ Save
    \/ ExtractCustomer
    \/ GenerateCustomer
    \/ SaveCustomer

Spec == Init /\ [][Next]_vars

----------------------------------------------------------------------------
(* Extraction alone, on every graph of up to MaxRecords records with up to *)
(* MaxGraphFields fields each.                                             *)

MaxRecords == 3

MaxGraphFields == 2

RecordNames == <<T, U, W, P, Q>>

GraphFieldNames == <<ID, Tel, CC, No>>

\* the types a field of a graph may have: any record of the graph, string,
\* and a pointer to the first record (a field that is dropped)
GraphTypes ==
    {Ident(RecordNames[i]) : i \in 1..MaxRecords} \cup {Ident(StringT), Other(T)}

\* the field lists of a record: one field per name, in order, untagged
GraphFieldLists ==
    UNION {{[i \in 1..n |-> Field(<<GraphFieldNames[i]>>, ts[i], NoTag)] :
                ts \in [1..n -> GraphTypes]} : n \in 0..MaxGraphFields}

\* the unit declaring the first n records, in the order of RecordNames,
\* with the field lists fls: a field of an earlier record may name a later
\* one, and the reverse
GraphUnit(n, fls) == Unit([i \in 1..n |-> Struct(RecordNames[i], fls[i])])

\* units with what the graphs above leave out: a record declared twice, a
\* declaration that is no struct, a field with two names, an embedded field
OddSources ==
    {Unit(<<DeclT, DeclP, Struct(T, <<>>)>>),
     Unit(<<Alias(P), DeclT>>),
     Unit(<<Struct(T, <<Field(<<ID, Tel>>, Ident(P), NoTag)>>), DeclP>>),
     Unit(<<Struct(T, <<Field(<<>>, Ident(P), NoTag)>>), DeclP>>),
     Unit(<<DeclW, DeclTSelf>>),
     BadUnit}

InitExtract ==
    \/ \E n \in 1..MaxRecords :
           \E fls \in [1..n -> GraphFieldLists] : InitAt("main", GraphUnit(n, fls))
    \/ InitWith("main", OddSources)

NextExtract == Extract

SpecExtract == InitExtract /\ [][NextExtract]_vars

\* C1: after extractStructDefs, a record is marked nested if and only if
\* some other record of the graph has a kept field whose type is its name
\* (a field of the record itself is no reference by another record).
C1_NestedIffReferencedByOther ==
    pc = "range" =>
        \A r \in DOMAIN structInfos :
            structInfos[r].IsNested <=>
                \E o \in (DOMAIN structInfos) \ {r} :
                    \E f \in DOMAIN structInfos[o].Fields :
                        structInfos[o].Fields[f].Type = r

----------------------------------------------------------------------------
(* Validation: GenerateData on schemas with one top-level record, the      *)
(* backend answering at once with arrays of up to MaxRows rows.            *)

MaxRows == 31

\* type P struct { CC string `json:"x"`; No string `json:"y,omitempty"` }
DeclPOptional == Struct(P, <<Field(<<CC>>, Ident(StringT), JSONTagLit(kx)),
                             Field(<<No>>, Ident(StringT), JSONTagLit(ky \o Comma \o omitempty))>>)

\* type P struct { x string `json:"x"`; y string `json:",omitempty"` }
DeclPOptionalUnnamed ==
    Struct(P, <<Field(<<kx>>, Ident(StringT), JSONTagLit(kx)),
                Field(<<ky>>, Ident(StringT), JSONTagLit(Comma \o omitempty))>>)

\* type P struct { CC string `db:"q" json:"x"`; y string `xml:"No"` }
DeclPOtherTags == Struct(P, <<Field(<<CC>>, Ident(StringT), DBJSONTagLit(kx)),
                              Field(<<ky>>, Ident(StringT), XMLTagLit(No))>>)

\* type T struct { a string; p P }
DeclTPlain == Struct(T, <<Field(<<ka>>, Ident(StringT), NoTag),
                          Field(<<kp>>, Ident(P), NoTag)>>)

\* type T struct { ID string `json:"a,omitempty"`; Tel P `json:"p"` }
DeclTOptional == Struct(T, <<Field(<<ID>>, Ident(StringT), JSONTagLit(ka \o Comma \o omitempty)),
                             Field(<<Tel>>, Ident(P), JSONTagLit(kp))>>)

\* type T struct { ID string `json:"a"`; Tel P `json:"p,omitempty"` }
DeclTOptionalNested ==
    Struct(T, <<Field(<<ID>>, Ident(StringT), JSONTagLit(ka)),
                Field(<<Tel>>, Ident(P), JSONTagLit(kp \o Comma \o omitempty))>>)

\* type P struct { CC Q `json:"x"`; No string `json:"y"` }
DeclPQ == Struct(P, <<Field(<<CC>>, Ident(Q), JSONTagLit(kx)),
                      Field(<<No>>, Ident(StringT), JSONTagLit(ky))>>)

\* type Q struct { ID string `json:"a"` }
DeclQ == Struct(Q, <<Field(<<ID>>, Ident(StringT), JSONTagLit(ka))>>)

ValidateSources ==
    {Unit(<<DeclT, DeclP>>), Unit(<<DeclT, DeclPOptional>>),
     Unit(<<DeclT, DeclPOptionalUnnamed>>), Unit(<<DeclT, DeclPOtherTags>>),
     Unit(<<DeclTPlain, DeclP>>), Unit(<<DeclTOptional, DeclP>>),
     Unit(<<DeclTOptionalNested, DeclPOptional>>), Unit(<<DeclT, DeclPQ, DeclQ>>),
     Unit(<<DeclU>>), Unit(<<DeclTPointer>>), Unit(<<Struct(T, <<>>)>>)}

\* arrays of n equal rows, n up to MaxRows, and arrays of minRows rows of
\* which the first or the last differs from the others
ValidateReplies ==
    {TextReply(RowsText(n, base, 0, base)) :
         n \in 0..MaxRows, base \in DOMAIN ObjectLiterals}
    \cup {TextReply(RowsText(minRows, base, pos, odd)) :
              base \in DOMAIN ObjectLiterals, odd \in DOMAIN ObjectLiterals,
              pos \in {1, minRows}}

ValidateAnswers == {Answer(0, TRUE, r) : r \in ValidateReplies}

InitValidate == InitWith("main", ValidateSources)

NextValidate ==
    \/ Extract
    \/ SkipNested
    \/ StartGenerate
    \/ ReturnNil
    \/ Invoke
    \/ BackendReturn(ValidateAnswers)
    \/ Finish
    \/ GenerateFailed
    \/ Save

SpecValidate == InitValidate /\ [][NextValidate]_vars

----------------------------------------------------------------------------
(* What the claims speak of.                                               *)

\* GenerateData has returned after a successful parse of the reply
Parsed ==
    /\ pc = "generated"
    /\ prog = "main"
    /\ result.err.kind \notin {"backend", "noresponse", "format", "parse"}

\* the number of rows of the reply: the literals of its text
ReplyRows == Cardinality({i \in 1..Len(resp.text) :
                              resp.text[i] \in (DOMAIN ObjectLiterals) \cup {NullLiteral}})

\* the accepted band of the row count
InBand(n) == n >= 25 /\ n <= 30

\* the fields of a record of the graph, and the wire name of one
Fields(rec) == DOMAIN structInfos[rec].Fields

Wire(rec, f) == WireName(f, structInfos[rec].Fields[f])

\* the field's type names a record of the graph
IsRecordField(rec, f) == structInfos[rec].Fields[f].Type \in DOMAIN structInfos

TypeOf(rec, f) == structInfos[rec].Fields[f].Type

\* the field is declared in the source with a tag marking it optional
\* (json:"name,omitempty")
IsOptional(rec, f) ==
    \E i \in 1..Len(src.decls) :
        /\ src.decls[i].Name = rec
        /\ \E j \in 1..Len(src.decls[i].Fields) :
               LET fd == src.decls[i].Fields[j]
               IN /\ \E k \in 1..Len(fd.Names) : fd.Names[k] = f
                  /\ Contains(fd.Tag, Comma \o omitempty)

\* the value is a mapping holding the fields fs of record rec under their
\* wire names
HoldsFields(v, rec, fs) ==
    /\ v.t = "object"
    /\ \A nf \in fs : Wire(rec, nf) \in DOMAIN v.m

\* the row has, for each field of rec whose type names a record, a mapping
\* holding every field of that record
NestedConform(row, rec) ==
    \A f \in Fields(rec) :
        IsRecordField(rec, f) =>
            /\ Wire(rec, f) \in DOMAIN row
            /\ HoldsFields(row[Wire(rec, f)], TypeOf(rec, f), Fields(TypeOf(rec, f)))

\* some row lacks the wire name of a non-optional field of rec
SomeRowLacksRequired(rec) ==
    \E i \in 1..Len(rows) :
        \E f \in Fields(rec) : ~IsOptional(rec, f) /\ Wire(rec, f) \notin DOMAIN rows[i]

C3_OptionalNestedExempt ==
    (/\ Parsed
     /\ InBand(Len(rows))
     /\ \A i \in 1..Len(rows) :
            \A f \in Fields(structName) :
                /\ Wire(structName, f) \in DOMAIN rows[i]
                /\ IsRecordField(structName, f) =>
                       HoldsFields(rows[i][Wire(structName, f)], TypeOf(structName, f),
                                   {nf \in Fields(TypeOf(structName, f)) :
                                        ~IsOptional(TypeOf(structName, f), nf)}))
        => result.err = NoErr

\* C4: when the value under the wire name of a field whose type names a
\* record of the graph is no mapping, GenerateData returns an error and no
\* rows.
C4_NestedMustBeMapping ==
    (/\ Parsed
     /\ \E i \in 1..Len(rows) :
            \E f \in Fields(structName) :
                /\ IsRecordField(structName, f)
                /\ Wire(structName, f) \in DOMAIN rows[i]
                /\ rows[i][Wire(structName, f)].t # "object")
        => (result.err # NoErr /\ result.rows = <<>>)

\* an array in the last of 25 rows, where a mapping is required, is reported
C4_Witness ==
    /\ Parsed
    /\ Len(rows) = 25
    /\ result.err.kind = "notobject"
    /\ result.err.row = 25
    /\ result.rows = <<>>
    /\ \E f \in Fields(structName) :
           /\ IsRecordField(structName, f)
           /\ Wire(structName, f) \in DOMAIN rows[25]
           /\ rows[25][Wire(structName, f)].t = "array"

\* C5: after a successful parse into n rows GenerateData fails with the
\* row-count error if and only if n < 25 or n > 30, whatever the rows hold.
C5_RowCountBand ==
    Parsed =>
        /\ Len(rows) = ReplyRows
        /\ (result.err.kind = "rowcount") <=> (ReplyRows < 25 \/ ReplyRows > 30)
        /\ (ReplyRows < 25 \/ ReplyRows > 30) => result.rows = <<>>

\* 31 rows that would fail the field checks are rejected for their number
C5_Witness ==
    /\ Parsed
    /\ ReplyRows = 31
    /\ result.err.kind = "rowcount"
    /\ Fields(structName) # {}
    /\ \A f \in Fields(structName) : Wire(structName, f) \notin DOMAIN rows[1]

----------------------------------------------------------------------------
(* Sanitization: GenerateData on replies whose text is an array or another *)
(* body, bare or in a fenced block, with white space around each part.     *)

MaxBodyRows == 2

\* the white space put around the parts of a reply
Padding == {<<>>, <<" ">>, <<"\n">>, <<"\n", " ", "\n">>}

\* the array texts: up to MaxBodyRows rows, the shortest accepted array, and
\* an array with white space between its tokens
ArrayTexts ==
    {RowsText(n, GoodRow, 1, "{a:1}") : n \in 0..MaxBodyRows}
        \cup {RowsText(minRows, GoodRow, 0, GoodRow),
              <<"[", " ", GoodRow, "\n", ",", " ", GoodRow, " ", "]">>}

\* bodies that are no array: an object, objects separated by a comma, an
\* array that is not closed, prose, nothing
OtherBodies ==
    {<<GoodRow>>, <<GoodRow, ",", GoodRow>>, <<"[", GoodRow>>, Prose, <<>>}

\* a body in a fenced block: the opening fence line, the body, the closing
\* fence on a line of its own
Fenced(open, w1, body, w2) == open \o w1 \o body \o w2 \o FenceEnd

SanitizeTexts ==
    LET bodies == ArrayTexts \cup OtherBodies
    IN {pre \o body \o post : pre \in Padding, post \in Padding, body \in bodies}
       \cup {pre \o Fenced(open, w1, body, w2) \o post :
                 pre \in {<<>>, <<"\n">>}, post \in {<<>>, <<" ">>},
                 open \in {FenceJSON, Fence}, w1 \in Padding, w2 \in Padding,
                 body \in bodies}
       \cup {FenceJSON \o body : body \in bodies}
       \cup {Fence \o body \o <<BQ, BQ, BQ>> : body \in bodies}

SanitizeAnswers == {Answer(0, TRUE, TextReply(t)) : t \in SanitizeTexts}

InitSanitize == InitWith("main", {Unit(<<DeclT, DeclP>>)})

NextSanitize ==
    \/ Extract
    \/ SkipNested
    \/ StartGenerate
    \/ ReturnNil
    \/ Invoke
    \/ BackendReturn(SanitizeAnswers)
    \/ Finish
    \/ GenerateFailed
    \/ Save

SpecSanitize == InitSanitize /\ [][NextSanitize]_vars

\* GenerateData has cleaned the text of the reply
Cleaned == pc = "generated" /\ prog = "main" /\ resp.kind = "text"

\* the texts that are the array arr in a fenced block
FencedForms(arr) ==
    {pre \o Fenced(open, w1, arr, w2) \o post :
         pre \in Padding, post \in Padding, open \in {FenceJSON, Fence},
         w1 \in Padding, w2 \in Padding}

\* the texts that are the bare array arr with white space around it
BareForms(arr) == {pre \o arr \o post : pre \in Padding, post \in Padding}

\* C6: the cleaning of a fenced block containing a JSON array yields the
\* array and no fence marker, that of a bare array with white space around
\* it yields the array, and cleaning the result again changes nothing.
C6_SanitizeYieldsArray ==
    Cleaned =>
        \A arr \in ArrayTexts :
            resp.text \in FencedForms(arr) \cup BareForms(arr) =>
                /\ content = arr
                /\ \A i \in 1..Len(content) : content[i] # BQ
                /\ Sanitize(content) = content

\* a fenced block with the json tag, white space around the array and
\* around the block, is cleaned to the array of 25 rows
C6_Witness ==
    /\ Cleaned
    /\ resp.text = <<"\n">> \o Fenced(FenceJSON, <<"\n">>, RowsText(minRows, GoodRow, 0, GoodRow),
                                      <<" ">>) \o <<" ">>
    /\ content = RowsText(minRows, GoodRow, 0, GoodRow)
    /\ result.err = NoErr

----------------------------------------------------------------------------
(* The retry loop and the driver.                                          *)

EventsOf(kinds) == {i \in DOMAIN events : events[i].ev \in kinds}

\* C7: in one GenerateData call the backend is invoked at most 2 times, one
\* call at a time; a second call follows only a failed first call and the
\* delay; no call follows a successful one; and when both attempts fail
\* GenerateData returns an error carrying the error of the last attempt,
\* having parsed and validated nothing.
C7_RetryPolicy ==
    LET calls == EventsOf({"call"})
        fails == EventsOf({"fail"})
    IN /\ Cardinality(calls) <= 2
       /\ inflight <= 1
       /\ \A i \in calls :
              i > 1 => /\ i >= 3
                       /\ events[i - 1].ev = "sleep"
                       /\ events[i - 1].d = 1
                       /\ events[i - 2].ev = "fail"
       /\ \A i \in calls : \A j \in 1..(i - 1) : events[j].ev # "ok"
       /\ (pc = "generated" /\ prog = "main" /\ Cardinality(fails) = 2) =>
              /\ result.rows = <<>>
              /\ result.err.kind = "backend"
              /\ result.err.cause = events[Len(events)].err.kind
              /\ result.err.attempt = events[Len(events)].attempt
              /\ events[Len(events)].ev = "fail"
              /\ EventsOf({"parse"}) = {}
              /\ content = <<>>
              /\ rows = <<>>

\* the first attempt fails with an error of the backend, the second is cut
\* by the deadline: the error returned carries the deadline error
C7_Witness ==
    /\ pc = "generated"
    /\ prog = "main"
    /\ Len(events) = 5
    /\ events[2].ev = "fail"
    /\ events[2].err.kind = "api"
    /\ events[5].ev = "fail"
    /\ events[5].err.kind = "deadline"
    /\ result.err.kind = "backend"
    /\ result.err.cause = "deadline"
    /\ result.err.attempt = 2

\* C8: a call that hits the timeout is a failed attempt like any other, and
\* the attempt that follows it runs under a timeout of its own: when the
\* backend answers that attempt in time, the attempt is not cut by the
\* deadline.
C8_RetryHasOwnTimeout ==
    \A i \in EventsOf({"fail"}) :
        \A j \in EventsOf({"ok", "fail"}) :
            (/\ i < j
             /\ events[i].err.kind = "deadline"
             /\ events[j].d < apiTimeoutSeconds)
                => events[j].err.kind # "deadline"

\* the names in a log
Names(log) == {log[i].name : i \in DOMAIN log}

Range(q) == {q[i] : i \in DOMAIN q}

GenerateFailures == {reported[i].name : i \in {j \in DOMAIN reported : reported[j].stage = "generate"}}

TopLevel == {r \in DOMAIN structInfos : ~structInfos[r].IsNested}

\* C9: in ProcessModel GenerateData and SaveToExcel are invoked for a record
\* if and only if it is not marked nested (SaveToExcel only after a
\* successful generation), and each such record is attempted exactly once.
C9_OnlyTopLevelProcessed ==
    prog = "main" =>
        /\ \A i \in DOMAIN generated : ~structInfos[generated[i]].IsNested
        /\ \A i, j \in DOMAIN generated : i # j => generated[i] # generated[j]
        /\ \A i, j \in DOMAIN exported : i # j => exported[i].name # exported[j].name
        /\ \A i \in DOMAIN exported :
               /\ ~structInfos[exported[i].name].IsNested
               /\ exported[i].name \in Range(generated)
               /\ exported[i].name \notin GenerateFailures
               /\ Len(exported[i].rows) > 0
        /\ (pc = "done" /\ ret = "nil") =>
               /\ Range(generated) = TopLevel
               /\ Names(exported) = TopLevel \ GenerateFailures

\* a run over a nested record and several top-level ones, one of which
\* failed in generation and one of which was exported
C9_Witness ==
    /\ prog = "main"
    /\ pc = "done"
    /\ ret = "nil"
    /\ Len(generated) = 3
    /\ \E r \in DOMAIN structInfos : structInfos[r].IsNested
    /\ GenerateFailures # {}
    /\ exported # <<>>

\* a failure of generation, validation or export has happened
FailureSeen ==
    \/ reported # <<>>
    \/ /\ prog = "customer"
       /\ \/ result.err # NoErr
          \/ \E i \in DOMAIN exported : exported[i].err # NoErr

\* C10 as stated: in the pipeline driver a failure for one top-level record
\* never aborts the run: every top-level record is attempted and the
\* driver returns without error.
C10_FailureNeverAborts ==
    (pc = "done" /\ FailureSeen) => (ret = "nil" /\ TopLevel \subseteq Range(generated))

\* C10 amended: that holds of ProcessModel; processCustomer attempts the
\* Customer record alone and returns its failure as an error.
C10_ProcessModelNeverAborts ==
    /\ (prog = "main" /\ FailureSeen) => ret # "error"
    /\ (prog = "main" /\ pc = "done" /\ FailureSeen) =>
           (ret = "nil" /\ TopLevel \subseteq Range(generated))
    /\ (prog = "customer" /\ pc = "done" /\ FailureSeen) =>
           (ret = "error" /\ generated = <<Customer>>)

\* the first of three top-level records fails in generation, the second in
\* export, the third is exported
C10_Witness ==
    /\ prog = "main"
    /\ pc = "done"
    /\ ret = "nil"
    /\ Len(generated) = 3
    /\ Len(reported) = 2
    /\ reported[1] = [name |-> generated[1], stage |-> "generate", err |-> reported[1].err]
    /\ reported[2] = [name |-> generated[2], stage |-> "save", err |-> SaveAsError]
    /\ Len(exported) = 2
    /\ exported[2].name = generated[3]
    /\ exported[2].err = NoErr

----------------------------------------------------------------------------
(* The deterministic variant on units that declare Customer with three     *)
(* fields and Phone with two subfields of varying identifiers and tags.    *)

TypeName == <<"T", "y", "p", "e">>

\* the identifiers the two subfields of Phone are drawn from
PhoneIdents == {p1, p2, CC, No}

\* the tags of the two subfields: json:"cc" and json:"num", json:"x" and
\* json:"y", or none
PhoneTags == {<<JSONTagLit(kcc), JSONTagLit(knum)>>, <<JSONTagLit(kx), JSONTagLit(ky)>>,
              <<NoTag, NoTag>>}

\* type Phone struct { <a> string <tag>; <b> string <tag> }
PhoneDecls ==
    {Struct(Phone, <<Field(<<a>>, Ident(StringT), tags[1]),
                     Field(<<b>>, Ident(StringT), tags[2])>>) :
         a \in PhoneIdents, b \in PhoneIdents, tags \in PhoneTags}
      \ {Struct(Phone, <<Field(<<a>>, Ident(StringT), tags[1]),
                         Field(<<a>>, Ident(StringT), tags[2])>>) :
             a \in PhoneIdents, tags \in PhoneTags}

\* type Phone struct { p1, p2 string }
DeclPhoneOneLine == Struct(Phone, <<Field(<<p1, p2>>, Ident(StringT), NoTag)>>)

\* type Customer struct { CustomerID string; Type string; Tel Phone `json:"p"` }
DeclCustomerTel ==
    Struct(Customer, <<Field(<<CustomerID>>, Ident(StringT), NoTag),
                       Field(<<TypeName>>, Ident(StringT), NoTag),
                       Field(<<Tel>>, Ident(Phone), JSONTagLit(kp))>>)

CustomerDecls == {DeclCustomer, DeclCustomerTel, DeclCustomerEmail}

CustomerUnits ==
    {Unit(<<c, p>>) : c \in CustomerDecls, p \in PhoneDecls \cup {DeclPhoneOneLine}}
        \cup {Unit(<<p, DeclCustomer>>) : p \in PhoneDecls}

InitCustomer == \E unit \in CustomerUnits : InitAt("customer", unit)

NextCustomer ==
    \/ ExtractCustomer
    \/ GenerateCustomer
    \/ SaveCustomer

SpecCustomer == InitCustomer /\ [][NextCustomer]_vars

\* the graph holds Customer with an identifier field, a categorical field
\* and a field of type Phone, and Phone with two subfields
CustomerShape ==
    /\ prog = "customer"
    /\ Customer \in DOMAIN structInfos
    /\ Phone \in DOMAIN structInfos
    /\ {CustomerID, TypeName} \subseteq Fields(Customer)
    /\ Cardinality(Fields(Customer)) = 3
    /\ \E f \in Fields(Customer) \ {CustomerID, TypeName} : TypeOf(Customer, f) = Phone
    /\ Cardinality(Fields(Phone)) = 2

\* generateCustomer has returned
CustomerGenerated == pc \in {"generated", "done"} /\ generated = <<Customer>>

\* 30 rows and no error; every row passes validation and has the three
\* wire names of Customer, with the two wire names of Phone under its phone
\* key
ThirtyValidRows ==
    /\ result.err = NoErr
    /\ Len(result.rows) = 30
    /\ CustomerValidationErrors(structInfos, result.rows) = {}
    /\ \A i \in 1..Len(result.rows) :
           LET row == result.rows[i]
           IN /\ DOMAIN row = {Wire(Customer, f) : f \in Fields(Customer)}
              /\ Cardinality(DOMAIN row) = 3
              /\ \A f \in Fields(Customer) :
                     TypeOf(Customer, f) = Phone =>
                         /\ row[Wire(Customer, f)].t = "object"
                         /\ DOMAIN row[Wire(Customer, f)].m =
                                {Wire(Phone, nf) : nf \in Fields(Phone)}
                         /\ Cardinality(DOMAIN row[Wire(Customer, f)].m) = 2

\* C11 as stated: for a graph with Customer (identifier, categorical and
\* phone field) and Phone (two subfields) generateCustomer returns 30 valid
\* rows of 3 keys with 2 keys under the phone key, whatever the two
\* subfields are named.
C11_ThirtyRowsWhateverNames ==
    (CustomerShape /\ CustomerGenerated) => ThirtyValidRows

\* C11 amended: that holds when the two subfields have the identifiers p1
\* and p2, whatever their wire names; with another identifier
\* generateCustomer returns the missing-nested-field error and no rows.
C11_ThirtyRowsForP1P2 ==
    (CustomerShape /\ CustomerGenerated) =>
        IF Fields(Phone) = {p1, p2}
        THEN ThirtyValidRows
        ELSE /\ result.err.kind = "missingnested"
             /\ result.rows = <<>>
             /\ ret = "error"

\* 30 rows for subfields p1 and p2 tagged json:"x" and json:"y", under a
\* phone field named Tel
C11_Witness ==
    /\ CustomerShape
    /\ CustomerGenerated
    /\ ThirtyValidRows
    /\ Fields(Phone) = {p1, p2}
    /\ Wire(Phone, p1) = kx
    /\ Wire(Phone, p2) = ky
    /\ Tel \in Fields(Customer)

----------------------------------------------------------------------------
(* What reaches the exporter.                                              *)

\* the fields of rec whose value the validation of the program requires to
\* be a mapping: in src/main.go those whose type names a record of the
\* graph, in src/unnamed/part_000 those of type Phone
MappingFields(rec) ==
    {f \in Fields(rec) :
         IF prog = "main" THEN IsRecordField(rec, f) ELSE TypeOf(rec, f) = Phone}

\* the row holds every field of rec under its wire name, with a mapping
\* that holds every field of the nested record where one is required
RowConforms(row, rec) ==
    \A f \in Fields(rec) :
        /\ Wire(rec, f) \in DOMAIN row
        /\ f \in MappingFields(rec) =>
               /\ row[Wire(rec, f)].t = "object"
               /\ \A nf \in DOMAIN FieldsOf(structInfos, TypeOf(rec, f)) :
                      WireName(nf, FieldsOf(structInfos, TypeOf(rec, f))[nf])
                          \in DOMAIN row[Wire(rec, f)].m

\* the row count the program accepts: the band of GenerateData, the 30 rows
\* of generateCustomer
CountAccepted(n) == IF prog = "main" THEN InBand(n) ELSE n = 30

\* C12: every call of SaveToExcel receives rows that passed the row-count
\* check and the structural validation of their record: whatever the
\* backend answered, no call of the exporter has rows that were not
\* validated.
C12_ExporterGetsValidatedRows ==
    \A i \in DOMAIN exported :
        /\ exported[i].name \in DOMAIN structInfos
        /\ CountAccepted(Len(exported[i].rows))
        /\ \A k \in 1..Len(exported[i].rows) :
               RowConforms(exported[i].rows[k], exported[i].name)

\* one record of the unit was exported with its 25 rows after the reply
\* for another record failed the field checks
C12_Witness ==
    /\ prog = "main"
    /\ \E i \in DOMAIN exported :
           /\ Len(exported[i].rows) = 25
           /\ Fields(exported[i].name) # {}
           /\ MappingFields(exported[i].name) # {}
    /\ \E j \in DOMAIN reported :
           /\ reported[j].stage = "generate"
           /\ reported[j].err.kind \in {"missing", "notobject", "missingnested"}

----------------------------------------------------------------------------
(* The depth of validation.                                                *)

\* the value lacks what a value of record rec must have: it is no mapping,
\* or a mapping without the wire name of some field of rec
Incomplete(v, rec) == ~HoldsFields(v, rec, Fields(rec))

\* the fields of rec whose type names a record of the graph
RecordFields(rec) == {f \in Fields(rec) : IsRecordField(rec, f)}

\* in row i the nested object under field f of the target record holds,
\* under subfield nf whose type names a record, an incomplete value
BrokenBelow(i, f, nf) ==
    /\ IsRecordField(structName, f)
    /\ IsRecordField(TypeOf(structName, f), nf)
    /\ Wire(TypeOf(structName, f), nf) \in DOMAIN rows[i][Wire(structName, f)].m
    /\ Incomplete(rows[i][Wire(structName, f)].m[Wire(TypeOf(structName, f), nf)],
                  TypeOf(TypeOf(structName, f), nf))

\* every row holds every field of the target record, with a mapping that
\* holds every key of the nested record
OneLevelConforms ==
    \A i \in 1..Len(rows) :
        /\ \A f \in Fields(structName) : Wire(structName, f) \in DOMAIN rows[i]
        /\ NestedConform(rows[i], structName)

\* C13: validation goes one level deep: rows that conform at the top and in
\* their nested objects are accepted although a nested object holds, under
\* a subfield whose type names a record, a scalar or a mapping with missing
\* keys.
C13_OneLevelOnly ==
    (/\ Parsed
     /\ InBand(Len(rows))
     /\ OneLevelConforms
     /\ \E i \in 1..Len(rows) :
            \E f \in RecordFields(structName) :
                \E nf \in Fields(TypeOf(structName, f)) : BrokenBelow(i, f, nf))
        => (result.err = NoErr /\ result.rows = rows)

\* 25 rows are returned of which the first holds a scalar, and the others a
\* mapping with a missing key, where the nested record has a field of a
\* record type
C13_Witness ==
    /\ Parsed
    /\ Len(rows) = 25
    /\ result.err = NoErr
    /\ result.rows = rows
    /\ \E f \in RecordFields(structName) :
           \E nf \in Fields(TypeOf(structName, f)) :
               /\ BrokenBelow(1, f, nf)
               /\ rows[1][Wire(structName, f)].m[Wire(TypeOf(structName, f), nf)].t = "number"
               /\ BrokenBelow(2, f, nf)
               /\ rows[2][Wire(structName, f)].m[Wire(TypeOf(structName, f), nf)].t = "object"

====
